---- MODULE Spec2Model ----
(***************************************************************************)
(* Model of wallpaper_changer_rust (src/src/main.rs): the day-cycle        *)
(* scheduling engine.  timestamp_splitter and map_images_and_timestamps    *)
(* are operators computed as the code computes them; main() is a state     *)
(* machine whose actions are the steps of main between its observable      *)
(* points (start-up, loop condition, rollover test, timeline scan, sleep)  *)
(* and the Ctrl+C handler that runs concurrently with it.                  *)
(*                                                                         *)
(* Time is in seconds (POSIX).  The wall clock and the local UTC offset    *)
(* are the environment; the transit provider (geodate) is an external      *)
(* function of the day, modelled as a choice made the first time a day is  *)
(* asked for and remembered afterwards (sky).                              *)
(***************************************************************************)
EXTENDS Integers, Sequences, FiniteSets, TLC

VARIABLES
    now,                    \* the wall clock, UTC seconds (Local::now().timestamp())
    utc_offset,             \* the local time zone's offset from UTC, seconds
    sky,                    \* what the transit provider answers, per day asked
    pc,                     \* main's position
    today,                  \* main's `today`, as today.timestamp()
    wallpaper_pack,         \* config.wallpaper_pack
    wallpaper_pack_config,  \* the six image lists
    sun_and_moon,           \* the Anchor Set
    images_seq,             \* the Timeline's images
    timestamp_seq,          \* the Timeline's timestamps
    current_timestamp,      \* the last observed wall-clock timestamp
    terminate_loop,         \* the AtomicBool the Ctrl+C handler sets
    exit,                   \* how the process ended: [status, msg]
    stdout,                 \* lines printed
    iteration,              \* number of loop bodies entered
    tick,                   \* what the current iteration has done so far
    calls,                  \* number of calls made to each collaborator
    split,                  \* arguments and result of a lone timestamp_splitter call
    signalled               \* what had been done when the first Ctrl+C was handled

vars == <<now, utc_offset, sky, pc, today, wallpaper_pack, wallpaper_pack_config,
          sun_and_moon, images_seq, timestamp_seq, current_timestamp,
          terminate_loop, exit, stdout, iteration, tick, calls, split, signalled>>

----------------------------------------------------------------------------
(* Bounds of the model *)

\* longest image list of a segment
MaxImages == 2
\* largest number of loop iterations followed
MaxTicks == 4
\* largest start/end argument given to a lone timestamp_splitter call
MaxStamp == 7

(* Program constants *)

\* Duration::days(1), in seconds
DaySeconds == 86400
\* time::Duration::from_secs(30)
PollSeconds == 30

----------------------------------------------------------------------------
(* Pure functions *)

Abs(a) == IF a < 0 THEN -a ELSE a

\* a quotient rounded up instead of truncated (b > 0)
TruncDiv_round_up(a, b) == -((-a) \div b)

\* i64 `/`: the quotient truncated towards zero (b # 0)
TruncDiv(a, b) ==
    IF (a < 0) = (b < 0) THEN Abs(a) \div Abs(b) ELSE -(Abs(a) \div Abs(b))

Returned(v) == [panic |-> FALSE, value |-> v]
Panicked == [panic |-> TRUE, value |-> <<>>]

\* the points taken from the start of the interval: x counted from 0
StepSeq_from_zero(start, step, chunks) ==
    IF chunks < 1 THEN <<>> ELSE [x \in 1..chunks |-> start + (x - 1) * step]

\* (1..chunks + 1).map(|x| start + x * step).collect()
StepSeq(start, step, chunks) ==
    IF chunks < 1 THEN <<>> ELSE [x \in 1..chunks |-> start + x * step]

\* timestamp_splitter with the difference taken the wrong way round
timestamp_splitter_reversed(start, end, chunks) ==
    IF chunks = 0
    THEN Panicked
    ELSE Returned(StepSeq(start, TruncDiv(start - end, chunks), chunks))

\* fn timestamp_splitter(start, end, chunks) -> Vec<i64>; the division
\* panics ("attempt to divide by zero") when chunks = 0
timestamp_splitter(start, end, chunks) ==
    IF chunks = 0
    THEN Panicked
    ELSE Returned(StepSeq(start, TruncDiv(end - start, chunks), chunks))

\* the keys of the Anchor Set
SunAndMoonKeys ==
    {"Midnight", "Sunrise", "Noon", "Sunset", "Moonrise", "Moonset", "NextDayMidnight"}

\* the fields of WallpaperPackConfig
PackFields == {"midnight", "sunrise", "noon", "sunset", "moonrise", "moonset"}

\* the six extends with the noon segment started at the wrong anchor
SegmentOrder_wrong_key ==
    << [list |-> "midnight", start |-> "Midnight", end |-> "Moonset"],
       [list |-> "moonset",  start |-> "Moonset",  end |-> "Sunrise"],
       [list |-> "sunrise",  start |-> "Sunrise",  end |-> "Noon"],
       [list |-> "noon",     start |-> "Sunrise",  end |-> "Sunset"],
       [list |-> "sunset",   start |-> "Sunset",   end |-> "Moonrise"],
       [list |-> "moonrise", start |-> "Moonrise", end |-> "NextDayMidnight"] >>

\* the six extends of map_images_and_timestamps, in the order of the code
SegmentOrder ==
    << [list |-> "midnight", start |-> "Midnight", end |-> "Moonset"],
       [list |-> "moonset",  start |-> "Moonset",  end |-> "Sunrise"],
       [list |-> "sunrise",  start |-> "Sunrise",  end |-> "Noon"],
       [list |-> "noon",     start |-> "Noon",     end |-> "Sunset"],
       [list |-> "sunset",   start |-> "Sunset",   end |-> "Moonrise"],
       [list |-> "moonrise", start |-> "Moonrise", end |-> "NextDayMidnight"] >>

\* PathBuf::new().join(wallpaper_pack_dir).join(x)
JoinPath(dir, x) == [dir |-> dir, file |-> x]

\* a join that loses the first file of the list
JoinAll_skip_first(dir, files) ==
    IF Len(files) <= 1 THEN <<>>
    ELSE [k \in 1..(Len(files) - 1) |-> JoinPath(dir, files[k + 1])]

JoinAll(dir, files) ==
    IF Len(files) = 0 THEN <<>> ELSE [k \in 1..Len(files) |-> JoinPath(dir, files[k])]

BuildPanicked == [panic |-> TRUE, images |-> <<>>, timestamps |-> <<>>]

RECURSIVE extend_segments(_, _, _, _, _, _)
extend_segments(i, sam, cfg, dir, images, timestamps) ==
    IF i > Len(SegmentOrder)
    THEN [panic |-> FALSE, images |-> images, timestamps |-> timestamps]
    ELSE LET seg  == SegmentOrder[i]
             imgs == cfg[seg.list]
             ts   == timestamp_splitter(sam[seg.start], sam[seg.end], Len(imgs))
         IN  IF ts.panic
             THEN BuildPanicked
             ELSE extend_segments(i + 1, sam, cfg, dir,
                                  images \o JoinAll(dir, imgs),
                                  timestamps \o ts.value)

\* fn map_images_and_timestamps(sun_and_moon, wallpaper_pack_config, wallpaper_pack_dir)
map_images_and_timestamps(sam, cfg, dir) ==
    extend_segments(1, sam, cfg, dir, <<>>, <<>>)

----------------------------------------------------------------------------
(* Values shared by the specifications *)

NoExit == [status |-> "none", msg |-> ""]
ExitOk == [status |-> "Ok", msg |-> ""]
ExitErr(m) == [status |-> "Err", msg |-> m]
ExitPanic(m) == [status |-> "Panic", msg |-> m]

NoAnchors == [k \in {} |-> 0]
NoPack == [f \in PackFields |-> <<>>]
NoTick == [ndm |-> 0, events |-> <<>>]
NoCalls == [transit |-> 0, build |-> 0, apply |-> 0]
NotSignalled == [seen |-> FALSE, pc |-> "", iteration |-> 0, applies |-> 0]
NoSplit == [start |-> 0, end |-> 0, chunks |-> 0, ret |-> Returned(<<>>)]

\* the image file names of a list of n images
Files(f, n) == IF n = 0 THEN <<>> ELSE [k \in 1..n |-> <<f, k>>]

PackDir(pack) == <<"wallpaper_packs", pack>>

----------------------------------------------------------------------------
(* SplitSpec: timestamp_splitter alone, over bounded arguments *)

\* the start and end arguments tried: every small one, and the hour of the
\* documented example partition(0, 3600, 2)
SplitStamps == 0..MaxStamp \cup {3600}

SplitInit ==
    /\ now = 0 /\ utc_offset = 0 /\ sky = <<>> /\ today = 0
    /\ wallpaper_pack = "" /\ wallpaper_pack_config = NoPack
    /\ sun_and_moon = NoAnchors /\ images_seq = <<>> /\ timestamp_seq = <<>>
    /\ current_timestamp = 0 /\ terminate_loop = FALSE
    /\ exit = NoExit /\ stdout = <<>> /\ iteration = 0
    /\ tick = NoTick /\ calls = NoCalls /\ signalled = NotSignalled
    /\ pc = "split"
    /\ \E s \in SplitStamps, e \in SplitStamps, c \in 0..(MaxImages + 1) :
          split = [start |-> s, end |-> e, chunks |-> c, ret |-> Returned(<<>>)]

Split ==
    /\ pc = "split"
    /\ LET r == timestamp_splitter(split.start, split.end, split.chunks)
       IN  /\ split' = [split EXCEPT !.ret = r]
           /\ pc' = IF r.panic THEN "panicked" ELSE "returned"
    /\ UNCHANGED <<now, utc_offset, sky, today, wallpaper_pack, wallpaper_pack_config,
                   sun_and_moon, images_seq, timestamp_seq, current_timestamp,
                   terminate_loop, exit, stdout, iteration, tick, calls, signalled>>

SplitNext == Split

SplitSpec == SplitInit /\ [][SplitNext]_vars

\* C7: timestamp_splitter(start, end, count) returns exactly count timestamps
\* for every count >= 0; for count = 0 it returns the empty sequence and does
\* not fail.
C7_PartitionCount ==
    pc \in {"returned", "panicked"} =>
        /\ pc = "returned"
        /\ ~split.ret.panic
        /\ Len(split.ret.value) = split.chunks

\* C11: for end > start and count >= 1 the sequence timestamp_splitter
\* returns is non-decreasing.
C11_PartitionMonotonic ==
    (pc \in {"returned", "panicked"} /\ split.end > split.start /\ split.chunks >= 1) =>
        /\ pc = "returned"
        /\ \A i \in 1..(Len(split.ret.value) - 1) :
              split.ret.value[i] <= split.ret.value[i + 1]

\* a partition of several points over an interval with end > start whose
\* points do increase
C11_Witness ==
    /\ pc = "returned"
    /\ split.end > split.start
    /\ split.chunks >= 2
    /\ split.ret.value[1] < split.ret.value[split.chunks]

\* C12: for start <= end and count >= 1 the sequence is start + step * i for
\* i = 1..count, in that order, step being (end - start) / count truncated
\* (the largest integer whose count-fold does not exceed end - start); the
\* last point never exceeds end, and partition(0, 3600, 2) = [1800, 3600].
C12_PartitionValues ==
    (pc \in {"returned", "panicked"} /\ split.start <= split.end /\ split.chunks >= 1) =>
        /\ pc = "returned"
        /\ Len(split.ret.value) = split.chunks
        /\ \E step \in 0..(split.end - split.start) :
              /\ step * split.chunks <= split.end - split.start
              /\ split.end - split.start < (step + 1) * split.chunks
              /\ \A i \in 1..split.chunks :
                    split.ret.value[i] = split.start + step * i
        /\ split.ret.value[split.chunks] <= split.end
        /\ (split.start = 0 /\ split.end = 3600 /\ split.chunks = 2) =>
              split.ret.value = <<1800, 3600>>

\* the documented example has been computed
C12_Witness ==
    /\ pc = "returned"
    /\ split.start = 0 /\ split.end = 3600 /\ split.chunks = 2
    /\ split.ret.value = <<1800, 3600>>

\* C13 as stated: for end > start and count >= 1, counts larger than
\* end - start included, every returned timestamp is strictly after start.
C13_StartNeverEmitted ==
    (pc = "returned" /\ split.end > split.start /\ split.chunks >= 1) =>
        \A i \in DOMAIN split.ret.value : split.ret.value[i] > split.start

\* C13 as the code has it: for count >= 1 and end - start >= count every
\* returned timestamp is strictly after start; for end > start and a count
\* larger than end - start the step truncates to 0 and every returned
\* timestamp is start itself.
C13_StartNeverEmittedWhenStepPositive ==
    (pc \in {"returned", "panicked"} /\ split.end > split.start /\ split.chunks >= 1) =>
        /\ pc = "returned"
        /\ split.end - split.start >= split.chunks =>
              \A i \in DOMAIN split.ret.value : split.ret.value[i] > split.start
        /\ split.end - split.start < split.chunks =>
              \A i \in DOMAIN split.ret.value : split.ret.value[i] = split.start

\* a partition whose count does not divide the interval and does not exceed
\* it: the first point is after start
C13_Witness ==
    /\ pc = "returned"
    /\ split.chunks >= 2
    /\ split.end - split.start > split.chunks
    /\ (split.end - split.start) % split.chunks # 0
    /\ split.ret.value[1] > split.start

----------------------------------------------------------------------------
(* BuildSpec: map_images_and_timestamps alone, over bounded Anchor Sets    *)
(* and image lists                                                         *)

\* the lengths of a segment (end anchor minus start anchor) tried: an end
\* before its start, a segment shorter than its image list, and a segment
\* its image count does not divide
GapSet == {-2, 1, 7}

\* the Anchor Set whose segments, in the order of SegmentOrder, have the gaps g
AnchorsFromGaps(base, g) ==
    [k \in SunAndMoonKeys |->
        CASE k = "Midnight"        -> base
          [] k = "Moonset"         -> base + g[1]
          [] k = "Sunrise"         -> base + g[1] + g[2]
          [] k = "Noon"            -> base + g[1] + g[2] + g[3]
          [] k = "Sunset"          -> base + g[1] + g[2] + g[3] + g[4]
          [] k = "Moonrise"        -> base + g[1] + g[2] + g[3] + g[4] + g[5]
          [] k = "NextDayMidnight" -> base + g[1] + g[2] + g[3] + g[4] + g[5] + g[6]]

\* the gaps of the six segments: at most one segment ends before it starts
GapChoices ==
    {g \in [1..6 -> GapSet] : Cardinality({i \in 1..6 : g[i] < 0}) <= 1}

\* the pack whose list f has n[f] images
PackOfCounts(n) == [f \in PackFields |-> Files(f, n[f])]

BuildInit ==
    /\ now = 0 /\ utc_offset = 0 /\ sky = <<>> /\ today = 0
    /\ wallpaper_pack = "pack"
    /\ images_seq = <<>> /\ timestamp_seq = <<>>
    /\ current_timestamp = 0 /\ terminate_loop = FALSE
    /\ exit = NoExit /\ stdout = <<>> /\ iteration = 0
    /\ tick = NoTick /\ calls = NoCalls /\ split = NoSplit
    /\ signalled = NotSignalled
    /\ pc = "build"
    /\ \E g \in GapChoices : sun_and_moon = AnchorsFromGaps(0, g)
    /\ \E n \in [PackFields -> 0..MaxImages] : wallpaper_pack_config = PackOfCounts(n)

Build ==
    /\ pc = "build"
    /\ LET r == map_images_and_timestamps(sun_and_moon, wallpaper_pack_config,
                                          PackDir(wallpaper_pack))
       IN  /\ images_seq' = r.images
           /\ timestamp_seq' = r.timestamps
           /\ pc' = IF r.panic THEN "panicked" ELSE "built"
           /\ exit' = IF r.panic THEN ExitPanic("attempt to divide by zero") ELSE exit
    /\ calls' = [calls EXCEPT !.build = @ + 1]
    /\ UNCHANGED <<now, utc_offset, sky, today, wallpaper_pack, wallpaper_pack_config,
                   sun_and_moon, current_timestamp, terminate_loop, stdout,
                   iteration, tick, split, signalled>>

BuildNext == Build

BuildSpec == BuildInit /\ [][BuildNext]_vars

\* the sum of the six image-list lengths
TotalImages(cfg) ==
    Len(cfg.midnight) + Len(cfg.moonset) + Len(cfg.sunrise)
        + Len(cfg.noon) + Len(cfg.sunset) + Len(cfg.moonrise)

\* C8: for every Anchor Set and every six image lists, empty ones included,
\* building the Timeline completes without error and the Timeline has as
\* many entries as the six lists have images.
C8_TimelineLength ==
    pc \in {"built", "panicked"} =>
        /\ pc = "built"
        /\ Len(timestamp_seq) = TotalImages(wallpaper_pack_config)
        /\ Len(images_seq) = TotalImages(wallpaper_pack_config)

\* the anchors are strictly increasing in the order of the segments
AnchorsIncreasing ==
    /\ sun_and_moon["Midnight"] < sun_and_moon["Moonset"]
    /\ sun_and_moon["Moonset"] < sun_and_moon["Sunrise"]
    /\ sun_and_moon["Sunrise"] < sun_and_moon["Noon"]
    /\ sun_and_moon["Noon"] < sun_and_moon["Sunset"]
    /\ sun_and_moon["Sunset"] < sun_and_moon["Moonrise"]
    /\ sun_and_moon["Moonrise"] < sun_and_moon["NextDayMidnight"]

\* C9: when the anchors are strictly increasing in segment order and every
\* segment has at least one image, the timestamps of the built Timeline are
\* non-decreasing over the whole concatenation, segment boundaries included.
C9_TimelineOrdering ==
    (/\ pc = "built"
     /\ AnchorsIncreasing
     /\ \A f \in PackFields : Len(wallpaper_pack_config[f]) >= 1) =>
        \A i \in 1..(Len(timestamp_seq) - 1) : timestamp_seq[i] <= timestamp_seq[i + 1]

\* a Timeline built over increasing anchors in which truncation leaves the
\* last point of the first segment before the segment's end, and the third
\* segment is shorter than its image list
C9_Witness ==
    /\ pc = "built"
    /\ AnchorsIncreasing
    /\ \A f \in PackFields : Len(wallpaper_pack_config[f]) = 2
    /\ timestamp_seq[2] < sun_and_moon["Moonset"]
    /\ timestamp_seq[5] = timestamp_seq[6]
    /\ timestamp_seq[6] < timestamp_seq[7]

----------------------------------------------------------------------------
(* The environment of main *)

\* Local::now().date_naive().and_hms_opt(0, 0, 0), then .timestamp(): the
\* local calendar date at 00:00, read as a UTC date-time
LocalMidnight(t, off) == ((t + off) \div DaySeconds) * DaySeconds

\* the transits geodate may fail to find (Option<i64>)
FallibleTransits == {"Sunrise", "Sunset", "Moonrise", "Moonset"}

\* seconds after today_posix at which the provider puts each transit, for a
\* day on which the moon sets before sunrise and rises after sunset
\* ("ordered") and for a day on which it rises early and sets late
TransitOffset(order, k) ==
    CASE k = "Midnight" -> 0
      [] k = "Sunrise"  -> 21601
      [] k = "Noon"     -> 43200
      [] k = "Sunset"   -> 64800
      [] k = "Moonset"  -> IF order = "ordered" THEN 10800 ELSE 75600
      [] k = "Moonrise" -> IF order = "ordered" THEN 75600 ELSE 10800

\* what the provider can answer for a day: where the transits fall and
\* which of them do not exist that day
Profiles ==
    {[order |-> o, missing |-> m] :
        o \in {"ordered", "moon_early"}, m \in SUBSET FallibleTransits}

\* sun_transit::get_sunrise etc.: Some(timestamp) or None
Some(v) == [some |-> TRUE, v |-> v]
None == [some |-> FALSE, v |-> 0]

get_transit(k, today_posix, p) ==
    IF k \in p.missing THEN None ELSE Some(today_posix + TransitOffset(p.order, k))

TransitOk(v) == [ok |-> TRUE, err |-> "", value |-> v]
TransitErr(m) == [ok |-> FALSE, err |-> m, value |-> NoAnchors]

\* get_day_sun_and_moon_position_times with moonset tried before sunrise
get_day_moon_first(today_posix, p) ==
    IF ~get_transit("Moonset", today_posix, p).some THEN TransitErr("Can't get moonset.")
    ELSE IF ~get_transit("Moonrise", today_posix, p).some THEN TransitErr("Can't get moonrise.")
    ELSE IF ~get_transit("Sunset", today_posix, p).some THEN TransitErr("Can't get sunset.")
    ELSE IF ~get_transit("Sunrise", today_posix, p).some THEN TransitErr("Can't get sunrise.")
    ELSE TransitOk([k \in SunAndMoonKeys |->
            IF k = "NextDayMidnight"
            THEN today_posix + DaySeconds
            ELSE get_transit(k, today_posix, p).v])

\* fn get_day_sun_and_moon_position_times(today_posix, longitude, latitude):
\* each `?` returns the first failure, in the order of the inserts
get_day_sun_and_moon_position_times(today_posix, p) ==
    IF ~get_transit("Sunrise", today_posix, p).some THEN TransitErr("Can't get sunrise.")
    ELSE IF ~get_transit("Sunset", today_posix, p).some THEN TransitErr("Can't get sunset.")
    ELSE IF ~get_transit("Moonrise", today_posix, p).some THEN TransitErr("Can't get moonrise.")
    ELSE IF ~get_transit("Moonset", today_posix, p).some THEN TransitErr("Can't get moonset.")
    ELSE TransitOk([k \in SunAndMoonKeys |->
            IF k = "NextDayMidnight"
            THEN today_posix + DaySeconds
            ELSE get_transit(k, today_posix, p).v])

\* the answers the provider can give for `day`, given what it answered before
Answers(day) == IF day \in DOMAIN sky THEN {sky[day]} ELSE Profiles

Remember(day, p) == IF day \in DOMAIN sky THEN sky ELSE sky @@ (day :> p)

\* the clock values the process may start at: one, twelve and twenty-two
\* hours into the second UTC day
StartClocks == {DaySeconds + 3600, DaySeconds + 43200, DaySeconds + 79200}

\* local UTC offsets: west of UTC, UTC, east of UTC
UtcOffsets == {-18000, 0, 7200}

\* how long a sleep lasts: the poll interval, or longer when the machine
\* is suspended meanwhile
SleepDurations == {PollSeconds, 21600, 43200}

\* the packs the loop is run with: every list of the same length, and
\* lists of different lengths
LoopPacks ==
    {PackOfCounts([f \in PackFields |-> n]) : n \in 0..MaxImages}
        \cup {PackOfCounts([f \in PackFields |->
                  IF f \in {"midnight", "noon", "moonrise"} THEN 1 ELSE MaxImages])}

----------------------------------------------------------------------------
(* Spec: main() and the Ctrl+C handler *)

Init ==
    /\ now \in StartClocks
    /\ utc_offset \in UtcOffsets
    /\ sky = <<>>
    /\ pc = "start"
    /\ today = 0
    /\ wallpaper_pack \in {"", "pack"}
    /\ wallpaper_pack_config = NoPack
    /\ sun_and_moon = NoAnchors
    /\ images_seq = <<>>
    /\ timestamp_seq = <<>>
    /\ current_timestamp = 0
    /\ terminate_loop = FALSE
    /\ exit = NoExit
    /\ stdout = <<>>
    /\ iteration = 0
    /\ tick = NoTick
    /\ calls = NoCalls
    /\ split = NoSplit
    /\ signalled = NotSignalled

\* `return`/`?`/panic out of main: the process is over
Terminate(e) == pc' = "exit" /\ exit' = e

\* a test of the pack name that never finds it empty
PackNotSelected_never == FALSE

\* line 301: config.wallpaper_pack.eq("")
PackNotSelected == wallpaper_pack = ""

\* main, lines 259-304: the directories, `today`, the user config (whose
\* wallpaper_pack is what the config file holds) and the test of the pack
\* name
Start ==
    /\ pc = "start"
    /\ \/ /\ Terminate(ExitErr("Unable to create ProjectDirs struct."))
          /\ UNCHANGED <<today, stdout>>
       \/ /\ Terminate(ExitErr("Unable to create wallpaper pack directory tree."))
          /\ UNCHANGED <<today, stdout>>
       \/ /\ today' = LocalMidnight(now, utc_offset)
          /\ Terminate(ExitErr("Unable to load the config file."))
          /\ UNCHANGED stdout
       \/ /\ today' = LocalMidnight(now, utc_offset)
          /\ IF PackNotSelected
             THEN /\ stdout' = Append(stdout, "Wallpaper pack is not selected.")
                  /\ Terminate(ExitOk)
             ELSE /\ pc' = "load_pack"
                  /\ UNCHANGED <<exit, stdout>>
    /\ UNCHANGED <<now, utc_offset, sky, wallpaper_pack, wallpaper_pack_config,
                   sun_and_moon, images_seq, timestamp_seq, current_timestamp,
                   terminate_loop, iteration, tick, calls, split, signalled>>

\* main, lines 306-324: the pack's own config file
LoadPack ==
    /\ pc = "load_pack"
    /\ \/ Terminate(ExitErr("unable to read wallpaper_pack_config.toml to String."))
          /\ UNCHANGED wallpaper_pack_config
       \/ Terminate(ExitErr("Unable to parse wallpaper_pack_config.toml file."))
          /\ UNCHANGED wallpaper_pack_config
       \/ /\ wallpaper_pack_config' \in LoopPacks
          /\ pc' = "first_day"
          /\ UNCHANGED exit
    /\ UNCHANGED <<now, utc_offset, sky, today, wallpaper_pack, sun_and_moon,
                   images_seq, timestamp_seq, current_timestamp, terminate_loop,
                   stdout, iteration, tick, calls, split, signalled>>

\* lines 326-336 and 354-367: the Anchor Set of `day` is fetched and the
\* Timeline built from it; a missing transit returns its error before
\* anything is assigned, an empty image list panics in the build
ComputeDay(day, p, next_pc, done) ==
    /\ sky' = Remember(day, p)
    /\ \E r \in {get_day_sun_and_moon_position_times(day, p)} :
          IF ~r.ok
          THEN /\ Terminate(ExitErr(r.err))
               /\ calls' = [calls EXCEPT !.transit = @ + 1]
               /\ UNCHANGED <<sun_and_moon, images_seq, timestamp_seq, tick>>
          ELSE \E b \in {map_images_and_timestamps(r.value, wallpaper_pack_config,
                                                  PackDir(wallpaper_pack))} :
               /\ calls' = [calls EXCEPT !.transit = @ + 1, !.build = @ + 1]
               /\ sun_and_moon' = r.value
               /\ IF b.panic
                  THEN /\ Terminate(ExitPanic("attempt to divide by zero"))
                       /\ UNCHANGED <<images_seq, timestamp_seq, tick>>
                  ELSE /\ pc' = next_pc
                       /\ images_seq' = b.images
                       /\ timestamp_seq' = b.timestamps
                       /\ tick' = [tick EXCEPT !.events = Append(@, done)]
                       /\ UNCHANGED exit

\* main, lines 326-336
FirstDay ==
    /\ pc = "first_day"
    /\ \E p \in Answers(today) :
          ComputeDay(today, p, "register", [op |-> "compute"])
    /\ UNCHANGED <<now, utc_offset, today, wallpaper_pack, wallpaper_pack_config,
                   current_timestamp, terminate_loop, stdout, iteration, split, signalled>>

\* main, lines 338-345: the first reading of the clock and the handler
Register ==
    /\ pc = "register"
    /\ current_timestamp' = now
    /\ \/ Terminate(ExitErr("Unable to set Ctrl+C handler."))
       \/ pc' = "loop" /\ UNCHANGED exit
    /\ UNCHANGED <<now, utc_offset, sky, today, wallpaper_pack, wallpaper_pack_config,
                   sun_and_moon, images_seq, timestamp_seq, terminate_loop, stdout,
                   iteration, tick, calls, split, signalled>>

\* the process is in its loop, with the handler registered
InLoop == pc \in {"loop", "body", "scan", "sleep"}

\* a record of the moment the flag goes from false to true: the iteration in
\* flight, where main is in it and how many applies have been made
SignalledAt ==
    [seen |-> TRUE, pc |-> pc, iteration |-> iteration, applies |-> calls.apply]

\* a handler that flips the flag instead of setting it
Signal_toggle ==
    /\ InLoop
    /\ terminate_loop' = ~terminate_loop
    /\ signalled' = IF terminate_loop THEN signalled ELSE SignalledAt
    /\ UNCHANGED <<now, utc_offset, sky, pc, today, wallpaper_pack,
                   wallpaper_pack_config, sun_and_moon, images_seq, timestamp_seq,
                   current_timestamp, exit, stdout, iteration, tick, calls, split>>

\* the Ctrl+C handler, lines 343-345: tl.store(true)
Signal ==
    /\ InLoop
    /\ terminate_loop' = TRUE
    /\ signalled' = IF terminate_loop THEN signalled ELSE SignalledAt
    /\ UNCHANGED <<now, utc_offset, sky, pc, today, wallpaper_pack,
                   wallpaper_pack_config, sun_and_moon, images_seq, timestamp_seq,
                   current_timestamp, exit, stdout, iteration, tick, calls, split>>

\* a loop condition that does not read the flag
LoopCondition_always == TRUE

\* line 347: !terminate_loop.load(Ordering::SeqCst)
LoopCondition == ~terminate_loop

\* a shutdown that cuts the iteration in flight short
LoopExit_midway ==
    /\ InLoop
    /\ ~LoopCondition
    /\ Terminate(ExitOk)
    /\ UNCHANGED <<now, utc_offset, sky, today, wallpaper_pack, wallpaper_pack_config,
                   sun_and_moon, images_seq, timestamp_seq, current_timestamp,
                   terminate_loop, stdout, iteration, tick, calls, split, signalled>>

\* line 347 when the condition is false, and line 386: Ok(())
LoopExit ==
    /\ pc = "loop"
    /\ ~LoopCondition
    /\ Terminate(ExitOk)
    /\ UNCHANGED <<now, utc_offset, sky, today, wallpaper_pack, wallpaper_pack_config,
                   sun_and_moon, images_seq, timestamp_seq, current_timestamp,
                   terminate_loop, stdout, iteration, tick, calls, split, signalled>>

\* line 347 when the condition is true: a loop body starts
LoopEnter ==
    /\ pc = "loop"
    /\ LoopCondition
    /\ iteration < MaxTicks
    /\ pc' = "body"
    /\ iteration' = iteration + 1
    /\ tick' = [ndm |-> sun_and_moon["NextDayMidnight"], events |-> <<>>]
    /\ UNCHANGED <<now, utc_offset, sky, today, wallpaper_pack, wallpaper_pack_config,
                   sun_and_moon, images_seq, timestamp_seq, current_timestamp,
                   terminate_loop, exit, stdout, calls, split, signalled>>

\* a rollover test that also fires at NextDayMidnight itself
DayIsOver_at == current_timestamp >= sun_and_moon["NextDayMidnight"]

\* line 348: current_timestamp > sun_and_moon[&SunAndMoonKeys::NextDayMidnight]
DayIsOver == current_timestamp > sun_and_moon["NextDayMidnight"]

\* a rollover that ends the iteration: the scan is skipped
Rollover_then_sleep ==
    /\ pc = "body"
    /\ DayIsOver
    /\ today' = LocalMidnight(now, utc_offset)
    /\ \E p \in Answers(today') :
          ComputeDay(today', p, "sleep", [op |-> "recompute"])
    /\ UNCHANGED <<now, utc_offset, wallpaper_pack, wallpaper_pack_config,
                   current_timestamp, terminate_loop, stdout, iteration, split, signalled>>

\* lines 348-368, the `if` taken; the scan of lines 370-379 follows it
Rollover ==
    /\ pc = "body"
    /\ DayIsOver
    /\ today' = LocalMidnight(now, utc_offset)
    /\ \E p \in Answers(today') :
          ComputeDay(today', p, "scan", [op |-> "recompute"])
    /\ UNCHANGED <<now, utc_offset, wallpaper_pack, wallpaper_pack_config,
                   current_timestamp, terminate_loop, stdout, iteration, split, signalled>>

\* a tick inside the day that throws the Timeline away
KeepDay_clear_timeline ==
    /\ pc = "body"
    /\ ~DayIsOver
    /\ pc' = "scan"
    /\ images_seq' = <<>>
    /\ timestamp_seq' = <<>>
    /\ UNCHANGED <<now, utc_offset, sky, today, wallpaper_pack, wallpaper_pack_config,
                   sun_and_moon, current_timestamp, terminate_loop, exit, stdout,
                   iteration, tick, calls, split, signalled>>

\* line 348, the `if` not taken
KeepDay ==
    /\ pc = "body"
    /\ ~DayIsOver
    /\ pc' = "scan"
    /\ UNCHANGED <<now, utc_offset, sky, today, wallpaper_pack, wallpaper_pack_config,
                   sun_and_moon, images_seq, timestamp_seq, current_timestamp,
                   terminate_loop, exit, stdout, iteration, tick, calls, split, signalled>>

\* the scan without its `break`: the last entry after the current timestamp
RECURSIVE scan_timeline_last(_, _, _)
scan_timeline_last(index, timestamps, current) ==
    IF index > Len(timestamps) THEN 0
    ELSE LET later == scan_timeline_last(index + 1, timestamps, current)
         IN  IF later # 0 THEN later
             ELSE IF current < timestamps[index] THEN index ELSE 0

\* lines 370-379: for (index, timestamp) in timestamp_seq.iter().enumerate(),
\* the first index with current_timestamp < *timestamp, counted from 1;
\* 0 when the loop ends without a match
RECURSIVE scan_timeline(_, _, _)
scan_timeline(index, timestamps, current) ==
    IF index > Len(timestamps) THEN 0
    ELSE IF current < timestamps[index] THEN index
    ELSE scan_timeline(index + 1, timestamps, current)

\* an apply failure that is swallowed: the loop goes on
AfterApply_continue(ok) ==
    pc' = "sleep" /\ UNCHANGED exit

\* line 376: .ok().ok_or_else(|| "Unable to set wallpaper.")?
AfterApply(ok) ==
    IF ok
    THEN pc' = "sleep" /\ UNCHANGED exit
    ELSE Terminate(ExitErr("Unable to set wallpaper."))

\* lines 370-379: the scan of the Timeline and the apply of its match
Scan ==
    /\ pc = "scan"
    /\ LET index == scan_timeline(1, timestamp_seq, current_timestamp)
       IN  IF index = 0
           THEN /\ pc' = "sleep"
                /\ UNCHANGED <<exit, tick, calls>>
           ELSE IF index > Len(images_seq)
           THEN /\ Terminate(ExitPanic("index out of bounds"))
                /\ UNCHANGED <<tick, calls>>
           ELSE \E ok \in BOOLEAN :
                /\ tick' = [tick EXCEPT !.events =
                               Append(@, [op |-> "apply", image |-> images_seq[index],
                                          ok |-> ok])]
                /\ calls' = [calls EXCEPT !.apply = @ + 1]
                /\ AfterApply(ok)
    /\ UNCHANGED <<now, utc_offset, sky, today, wallpaper_pack, wallpaper_pack_config,
                   sun_and_moon, images_seq, timestamp_seq, current_timestamp,
                   terminate_loop, stdout, iteration, split, signalled>>

\* lines 381-383: the sleep and the next reading of the clock
Sleep ==
    /\ pc = "sleep"
    /\ \E d \in SleepDurations : now' = now + d
    /\ current_timestamp' = now'
    /\ pc' = "loop"
    /\ UNCHANGED <<utc_offset, sky, today, wallpaper_pack, wallpaper_pack_config,
                   sun_and_moon, images_seq, timestamp_seq, terminate_loop, exit,
                   stdout, iteration, tick, calls, split, signalled>>

Next ==
    \/ Start
    \/ LoadPack
    \/ FirstDay
    \/ Register
    \/ Signal
    \/ LoopExit
    \/ LoopEnter
    \/ Rollover
    \/ KeepDay
    \/ Scan
    \/ Sleep

Spec == Init /\ [][Next]_vars

\* the steps of main's own thread: every call it makes returns, so main
\* goes on while it has a step to take; the handler runs only on a signal
MainStep ==
    \/ Start \/ LoadPack \/ FirstDay \/ Register
    \/ LoopExit \/ LoopEnter \/ Rollover \/ KeepDay \/ Scan \/ Sleep

\* the starts the liveness check is run from: the process starts late in the
\* day, so that rollovers fall inside the bounded run
LiveInit == Init /\ now = DaySeconds + 79200

LiveSpec == LiveInit /\ [][Next]_vars /\ WF_vars(MainStep)

----------------------------------------------------------------------------
(* Properties of the loop (checked under Spec) *)

\* the applies of the current iteration, in order
Applies == SelectSeq(tick.events, LAMBDA e : e.op = "apply")

\* the current iteration has recomputed the day
Recomputed == \E i \in DOMAIN tick.events : tick.events[i].op = "recompute"

\* the current iteration is past its scan
ScanDone ==
    \/ pc = "sleep"
    \/ pc = "exit" /\ exit = ExitErr("Unable to set wallpaper.")

\* the positions of the Timeline after the current timestamp
Future == {i \in DOMAIN timestamp_seq : timestamp_seq[i] > current_timestamp}

\* the applies are exactly one apply, of the image at the first position of
\* the Timeline after the current timestamp, or none when there is no such
\* position
AppliesFirstFuture ==
    IF Future = {}
    THEN Applies = <<>>
    ELSE /\ Len(Applies) = 1
         /\ \E i \in Future :
               /\ \A j \in Future : i <= j
               /\ i \in DOMAIN images_seq
               /\ Applies[1].image = images_seq[i]

\* C1: in an iteration whose current timestamp does not exceed
\* NextDayMidnight, exactly the image paired with the first Timeline entry
\* strictly after the current timestamp is applied, and no other; when no
\* entry is after the current timestamp nothing is applied.
C1_SelectionRule ==
    (ScanDone /\ current_timestamp <= tick.ndm) => AppliesFirstFuture

\* an iteration without rollover has skipped entries of the Timeline that
\* are not after the current timestamp and applied the first later one
C1_Witness ==
    /\ pc = "sleep"
    /\ current_timestamp <= tick.ndm
    /\ Len(Applies) = 1
    /\ Future # {}
    /\ 1 \notin Future
    /\ Cardinality(Future) > 1

\* C2 as stated: an iteration that recomputes the day applies no wallpaper.
C2_NoApplyWhenRecomputing ==
    Recomputed => Applies = <<>>

\* C2 as the code has it: an iteration that recomputes the day goes on to
\* the scan; it applies at most one wallpaper, after the recomputation, and
\* it is the image of the first entry of the new Timeline after the current
\* timestamp (none when the new Timeline has no such entry).
C2_RecomputingTickScansNewTimeline ==
    (ScanDone /\ Recomputed) =>
        /\ tick.events[1].op = "recompute"
        /\ timestamp_seq =
              map_images_and_timestamps(sun_and_moon, wallpaper_pack_config,
                                        PackDir(wallpaper_pack)).timestamps
        /\ AppliesFirstFuture

\* an iteration has recomputed the day and then applied a wallpaper
C2_Witness ==
    /\ pc = "sleep"
    /\ Recomputed
    /\ Len(tick.events) = 2
    /\ tick.events[2].op = "apply"

\* the Anchor Set the provider gives for `today`
FreshAnchors ==
    [k \in SunAndMoonKeys |->
        IF k = "NextDayMidnight"
        THEN today + DaySeconds
        ELSE today + TransitOffset(sky[today].order, k)]

\* C3: an iteration recomputes exactly when its current timestamp is
\* strictly greater than the NextDayMidnight it started with; the Anchor
\* Set and the Timeline are then those of the day the clock is in, and they
\* are in place before anything is selected.
C3_RolloverOrdering ==
    (pc \in {"scan", "sleep"} \/ ScanDone) =>
        /\ Recomputed <=> current_timestamp > tick.ndm
        /\ Recomputed =>
              /\ tick.events[1].op = "recompute"
              /\ \A i \in DOMAIN tick.events :
                    tick.events[i].op = "recompute" => i = 1
              /\ today = LocalMidnight(now, utc_offset)
              /\ sun_and_moon = FreshAnchors
              /\ LET b == map_images_and_timestamps(sun_and_moon, wallpaper_pack_config,
                                                    PackDir(wallpaper_pack))
                 IN  images_seq = b.images /\ timestamp_seq = b.timestamps

\* a rollover has replaced the Anchor Set by that of a later day, and the
\* scan is about to run
C3_Witness ==
    /\ pc = "scan"
    /\ Recomputed
    /\ current_timestamp > tick.ndm
    /\ sun_and_moon["NextDayMidnight"] > tick.ndm

\* C4: when the flag is true at the loop condition the loop exits and main
\* returns Ok; that step recomputes nothing and applies nothing.
C4_CleanShutdown ==
    [][(pc = "loop" /\ terminate_loop) =>
          /\ pc' = "exit"
          /\ exit' = ExitOk
          /\ UNCHANGED <<today, sky, sun_and_moon, images_seq, timestamp_seq,
                         iteration, tick, calls>>]_vars

\* the loop has run and has ended with Ok on the flag
C4_Witness ==
    /\ pc = "exit"
    /\ exit = ExitOk
    /\ terminate_loop
    /\ iteration > 1
    /\ calls.apply > 0

\* the error of the first missing transit, in the order sunrise, sunset,
\* moonrise, moonset
FirstMissing(m) ==
    IF "Sunrise" \in m THEN "Can't get sunrise."
    ELSE IF "Sunset" \in m THEN "Can't get sunset."
    ELSE IF "Moonrise" \in m THEN "Can't get moonrise."
    ELSE "Can't get moonset."

\* main is about to fetch an Anchor Set
FetchesDay == pc = "first_day" \/ (pc = "body" /\ DayIsOver)

\* C5: when a transit of the day being computed is unavailable, at start-up
\* or in a rollover, main ends with the error of the first unavailable one
\* (sunrise, sunset, moonrise, moonset), builds no Timeline, keeps no anchor
\* of that day and applies nothing; nothing runs after the end.
C5_TransitUnavailableIsFatal ==
    [][/\ (FetchesDay /\ pc' # pc /\ sky'[today'].missing # {}) =>
             /\ pc' = "exit"
             /\ exit' = ExitErr(FirstMissing(sky'[today'].missing))
             /\ UNCHANGED <<sun_and_moon, images_seq, timestamp_seq, tick>>
             /\ calls'.build = calls.build
             /\ calls'.apply = calls.apply
       /\ (FetchesDay /\ pc' # pc /\ sky'[today'].missing = {}) =>
             exit'.status # "Err"
       /\ pc # "exit"]_vars

\* a rollover has ended main on a day with two transits missing
C5_Witness ==
    /\ pc = "exit"
    /\ iteration > 0
    /\ today \in DOMAIN sky
    /\ sky[today].missing = {"Sunset", "Moonset"}
    /\ exit = ExitErr("Can't get sunset.")

\* C6: with an empty pack name main reports that no pack is selected and
\* returns Ok; the transit provider and the Timeline builder are never
\* called, the loop is never entered and nothing is applied.
C6_UnconfiguredPack ==
    wallpaper_pack = "" =>
        /\ pc \in {"start", "exit"}
        /\ calls = NoCalls
        /\ iteration = 0
        /\ sky = <<>>
        /\ sun_and_moon = NoAnchors
        /\ images_seq = <<>> /\ timestamp_seq = <<>>
        /\ (pc = "exit" /\ exit.status # "Err") =>
              /\ exit = ExitOk
              /\ stdout = <<"Wallpaper pack is not selected.">>

\* main has ended with Ok on an empty pack name
C6_Witness ==
    /\ wallpaper_pack = ""
    /\ pc = "exit"
    /\ exit = ExitOk
    /\ stdout = <<"Wallpaper pack is not selected.">>

\* C10: a failed apply ends main with an error: it is the last thing the
\* iteration does, and no later iteration starts.
C10_ApplyFailureIsFatal ==
    \A i \in DOMAIN tick.events :
        (tick.events[i].op = "apply" /\ ~tick.events[i].ok) =>
            /\ i = Len(tick.events)
            /\ pc = "exit"
            /\ exit = ExitErr("Unable to set wallpaper.")

\* an apply has failed after an iteration that applied with success
C10_Witness ==
    /\ pc = "exit"
    /\ exit = ExitErr("Unable to set wallpaper.")
    /\ iteration > 1
    /\ calls.apply > 1
    /\ Len(Applies) = 1
    /\ ~Applies[1].ok

\* C14: a signal handled while an iteration is in flight interrupts nothing:
\* the iteration goes on as it would have and ends at the sleep (or in a
\* failure of its own), never in the clean exit; once the flag is true no
\* further loop body starts and at most one further apply is made.
C14_ShutdownAtBoundary ==
    [][/\ (~terminate_loop /\ terminate_loop') =>
             UNCHANGED <<pc, exit, iteration, tick, calls, sun_and_moon,
                         images_seq, timestamp_seq, current_timestamp>>
       /\ (terminate_loop /\ pc \in {"body", "scan", "sleep"} /\ pc' # pc) =>
             /\ pc' = "exit" => exit'.status = "Err"
             /\ pc = "sleep" => pc' = "loop"
             /\ (pc = "scan" /\ Future # {}) => calls'.apply = calls.apply + 1
       /\ terminate_loop' =>
             /\ signalled'.seen
             /\ iteration' = signalled'.iteration
             /\ calls'.apply <= signalled'.applies + 1]_vars

\* a signal came before the rollover test of an iteration; the iteration
\* went on to apply a wallpaper and the loop then ended with Ok
C14_Witness ==
    /\ pc = "exit"
    /\ exit = ExitOk
    /\ signalled.seen
    /\ signalled.pc = "body"
    /\ calls.apply = signalled.applies + 1

\* C15: once the handler is registered and a signal has set the flag, main
\* ends, with Ok or with the error of the iteration in flight, provided
\* every call main makes returns.
C15_ShutdownLiveness ==
    terminate_loop ~> (pc = "exit" /\ exit.status \in {"Ok", "Err"})

\* a signal came during an iteration whose apply then failed
C15_Witness ==
    /\ pc = "exit"
    /\ terminate_loop
    /\ signalled.pc = "scan"
    /\ calls.apply > signalled.applies
    /\ exit = ExitErr("Unable to set wallpaper.")

\* C16: the flag starts false, is only ever set to true, never goes back to
\* false, and the step that sets it changes nothing of the scheduler: not
\* the Anchor Set, the Timeline, the last observed timestamp, nor where
\* main is.
C16_FlagMonotonicIsolated ==
    /\ ~terminate_loop
    /\ [][/\ terminate_loop => terminate_loop'
          /\ (terminate_loop' # terminate_loop) =>
                /\ InLoop
                /\ UNCHANGED <<now, pc, today, wallpaper_pack, wallpaper_pack_config,
                               sun_and_moon, images_seq, timestamp_seq,
                               current_timestamp, exit, stdout, iteration, tick,
                               calls, sky>>]_vars

\* the flag was set during a sleep, with a Timeline in place, after more
\* than one iteration, and main has come back to the loop condition
C16_Witness ==
    /\ terminate_loop
    /\ signalled.pc = "sleep"
    /\ pc = "loop"
    /\ iteration >= 2
    /\ Len(timestamp_seq) > 0

\* C17: in the loop, a step changes the Anchor Set or the Timeline only when it
\* is the body of an iteration whose current timestamp is past NextDayMidnight;
\* every other step of every iteration (the body of a tick inside the day, the
\* scan, the apply, the sleep, a signal) leaves the Anchor Set, the image
\* sequence and the timestamp sequence as they were, and a rollover that goes
\* on to its scan has replaced all three together, the Timeline being the one
\* built from the new Anchor Set
C17_ScheduleFrame ==
    [][InLoop =>
          /\ ~(pc = "body" /\ current_timestamp > sun_and_moon["NextDayMidnight"])
                => UNCHANGED <<sun_and_moon, images_seq, timestamp_seq>>
          /\ (pc = "body" /\ current_timestamp > sun_and_moon["NextDayMidnight"]
                /\ pc' = "scan")
                => /\ sun_and_moon'["NextDayMidnight"] = today' + DaySeconds
                   /\ images_seq' =
                         map_images_and_timestamps(sun_and_moon', wallpaper_pack_config,
                                                   PackDir(wallpaper_pack)).images
                   /\ timestamp_seq' =
                         map_images_and_timestamps(sun_and_moon', wallpaper_pack_config,
                                                   PackDir(wallpaper_pack)).timestamps]_vars

\* a tick inside the day has ended, after an earlier tick rolled the day over
C17_Witness ==
    /\ pc = "loop"
    /\ iteration >= 2
    /\ ~Recomputed
    /\ calls.build >= 2
    /\ Len(timestamp_seq) > 0
    /\ current_timestamp <= sun_and_moon["NextDayMidnight"]

\* C18: after a rollover recomputation the new NextDayMidnight is strictly
\* greater than the timestamp that triggered the rollover, for every local
\* UTC offset
C18_RolloverProgress ==
    (pc \in {"scan", "sleep"} /\ Recomputed)
        => sun_and_moon["NextDayMidnight"] > current_timestamp

\* the number of Timeline entries that come before segment s
RECURSIVE EntriesBefore(_)
EntriesBefore(s) ==
    IF s = 1 THEN 0
    ELSE EntriesBefore(s - 1) + Len(wallpaper_pack_config[SegmentOrder[s - 1].list])

\* C19: once the first day is built, and after every rollover, the image
\* sequence and the timestamp sequence have the same length; the k-th image
\* of each segment's list stands at the position of that segment's k-th
\* partition point; the index the scan picks is within the image sequence and
\* the process never panics on an index out of bounds
C19_SequencesAligned ==
    /\ exit # ExitPanic("index out of bounds")
    /\ pc \in {"register", "loop", "body", "scan", "sleep"} =>
          /\ Len(images_seq) = Len(timestamp_seq)
          /\ Len(images_seq) = EntriesBefore(Len(SegmentOrder) + 1)
          /\ \A s \in DOMAIN SegmentOrder :
                LET seg  == SegmentOrder[s]
                    imgs == wallpaper_pack_config[seg.list]
                    from == sun_and_moon[seg.start]
                    to   == sun_and_moon[seg.end]
                IN  \A k \in 1..Len(imgs) :
                       /\ images_seq[EntriesBefore(s) + k] =
                             [dir |-> PackDir(wallpaper_pack), file |-> imgs[k]]
                       /\ timestamp_seq[EntriesBefore(s) + k] =
                             from + k * TruncDiv(to - from, Len(imgs))
          /\ scan_timeline(1, timestamp_seq, current_timestamp) <= Len(images_seq)

\* after a rollover, the scan matched a position past the first one and the
\* image at that position was applied
C19_Witness ==
    /\ pc = "sleep"
    /\ Recomputed
    /\ Len(Applies) = 1
    /\ scan_timeline(1, timestamp_seq, current_timestamp) > 1
    /\ Applies[1].image = images_seq[scan_timeline(1, timestamp_seq, current_timestamp)]
    /\ \E f, g \in PackFields :
          Len(wallpaper_pack_config[f]) # Len(wallpaper_pack_config[g])

====
